---- MODULE Spec2Model ----
(***************************************************************************)
(* Feature quantization (catboost/libs/data_new/quantization.cpp).         *)
(*                                                                         *)
(* Quantize/TQuantizationImpl::Do turns a raw data provider into a         *)
(* quantized one.  It registers one task per available float feature and   *)
(* one per available categorical feature with a resource constrained       *)
(* executor; the tasks of one call run in parallel and share the           *)
(* TQuantizedFeaturesInfo object (nan modes, borders, perfect hashes),      *)
(* which is guarded by a read/write mutex.  Several Quantize calls (learn  *)
(* and test data, say) may be given the same TQuantizedFeaturesInfo.        *)
(*                                                                         *)
(* Floats are modelled by small integers: a finite value by itself, and    *)
(* the special values by the codes NaN, NegZero, Lowest and FltMax.         *)
(* 64 bit unsigned quantities are four 16 bit limbs, most significant      *)
(* first, so that ui64 arithmetic keeps its width.                          *)
(***************************************************************************)
EXTENDS Integers, Sequences, FiniteSets, TLC

(* ------------------------------ bounds --------------------------------- *)

\* physical rows of a raw column
MaxObjects == 3

\* the configured BorderCount: the finite values of a column have at most two
\* midpoints, so a larger count allows nothing more
BorderCounts == {1, 2}

(* ------------------------------ floats --------------------------------- *)

\* the not-a-number sentinel (IsNan)
NaN == 9999

\* -0.0f: equal to 0.0f in every comparison, a different bit pattern
NegZero == 5000

\* std::numeric_limits<float>::max()
FltMax == 1000

\* std::numeric_limits<float>::lowest()
Lowest == 0 - FltMax

IsNan(x) == x = NaN

\* the number a (non-NaN) float stands for
Val(x) == IF x = NegZero THEN 0 ELSE x

\* the finite values a raw column may hold, and the values a column may hold
FiniteValues == {-2, 2, 4}
ColumnValues == FiniteValues \cup {NaN}

(* --------------------------- ui64 arithmetic --------------------------- *)

LimbBase == 2^16

ToU64(n) == <<0, 0, n \div LimbBase, n % LimbBase>>

AddU64(a, b) ==
    LET s4 == a[4] + b[4]
        s3 == a[3] + b[3] + (s4 \div LimbBase)
        s2 == a[2] + b[2] + (s3 \div LimbBase)
        s1 == a[1] + b[1] + (s2 \div LimbBase)
    IN  <<s1 % LimbBase, s2 % LimbBase, s3 % LimbBase, s4 % LimbBase>>

\* a - b modulo 2^64
SubU64(a, b) ==
    LET d4 == a[4] - b[4]
        w4 == IF d4 < 0 THEN 1 ELSE 0
        d3 == a[3] - b[3] - w4
        w3 == IF d3 < 0 THEN 1 ELSE 0
        d2 == a[2] - b[2] - w3
        w2 == IF d2 < 0 THEN 1 ELSE 0
        d1 == a[1] - b[1] - w2
    IN  <<d1 % LimbBase, d2 % LimbBase, d3 % LimbBase, d4 % LimbBase>>

LessU64(a, b) ==
    \E i \in 1..4 : a[i] < b[i] /\ \A j \in 1..(i - 1) : a[j] = b[j]

LeqU64(a, b) == a = b \/ LessU64(a, b)

(* ------------------------------ sequences ------------------------------ *)

Range(s) == {s[i] : i \in 1..Len(s)}

Min2(a, b) == IF a <= b THEN a ELSE b

\* the injective sequences of length n over S
RECURSIVE InjSeqs(_, _)
InjSeqs(S, n) ==
    IF n = 0 THEN {<<>>}
    ELSE UNION {{Append(s, x) : x \in S \ Range(s)} : s \in InjSeqs(S, n - 1)}

\* Sort(borders->begin(), borders->end()) of the elements of a set of floats:
\* the elements below a middle one, it (and a zero of the other sign, which
\* compares equal), the elements above it
RECURSIVE SortedSeq(_)
SortedSeq(S) ==
    IF S = {} THEN <<>>
    ELSE LET m == CHOOSE x \in S :
                    Cardinality({y \in S : Val(y) < Val(x)}) = Cardinality(S) \div 2
                    \/ /\ Cardinality({y \in S : Val(y) < Val(x)}) < Cardinality(S) \div 2
                       /\ Cardinality({y \in S : Val(y) <= Val(x)}) > Cardinality(S) \div 2
             same == {y \in S \ {m} : Val(y) = Val(m)}
         IN  SortedSeq({y \in S : Val(y) < Val(m)})
                \o <<m>> \o SortedSeq(same)
                \o SortedSeq({y \in S : Val(y) > Val(m)})

StrictlyIncreasing(s) ==
    \A i \in 1..(Len(s) - 1) : Val(s[i]) < Val(s[i + 1])

\* a (32 bit) * n (32 bit) computed in 32 bits, then widened to 64
MulU32(a, n) ==
    LET p0 == a * (n % LimbBase)
        p1 == a * (n \div LimbBase) + (p0 \div LimbBase)
    IN  <<0, 0, p1 % LimbBase, p0 % LimbBase>>

\* a (size_t) * n (32 bit) computed in 64 bits
MulU64(a, n) ==
    LET p0 == a * (n % LimbBase)
        p1 == a * (n \div LimbBase) + (p0 \div LimbBase)
    IN  <<0, p1 \div LimbBase, p1 % LimbBase, p0 % LimbBase>>

(* ------------------------------- state --------------------------------- *)

\* the Quantize calls that may be made on the one TQuantizedFeaturesInfo
Ops == {1, 2, 3}

\* float features of the layout; there is one categorical feature
NumFloatFeatures == 2

FloatIdx == 0..(NumFloatFeatures - 1)
CatIdx == {0}

\* a task of a call: <<call, "F", floatFeatureIdx>> or <<call, "C", catFeatureIdx>>
FloatTasks == {<<o, "F", f>> : o \in Ops, f \in FloatIdx}
CatTasks == {<<o, "C", c>> : o \in Ops, c \in CatIdx}
AllTasks == FloatTasks \cup CatTasks

TasksOf(o) == {t \in AllTasks : t[1] = o}

ENanModes == {"Forbidden", "Min", "Max"}

VARIABLES
    \* TQuantizedFeaturesInfo, shared by the calls
    info,           \* features layout, binarization options, AllowNansInTestOnly
    nanModes,       \* NanModes: per float feature "None" (absent) or an ENanMode
    hasBorders,     \* Borders.has(f)
    borders,        \* Borders[f], a sequence of floats
    perfectHash,    \* per cat feature the tokens in code order (code = place - 1)
    rwMutex,        \* [readers |-> set of tasks, writer |-> set of tasks (at most one)]
    \* one Quantize call
    options,        \* TQuantizationOptions
    raw,            \* the raw data provider: columns, SubsetIndexing, Order, RefCount
    rss,            \* NMemInfo::GetMemInfo().RSS when the call reads it
    opPc,           \* "absent" | "idle" | "exec" | "returned" | "failed"
    opErr,          \* the error the call ended with
    clearSrcData,
    subsetForBuildBorders,  \* [present, idx]: physical rows, composed with SubsetIndexing
    quota,          \* ResourceQuota of the call's TResourceConstrainedExecutor
    warned,         \* the CATBOOST_WARNING_LOG of Do was written
    result,         \* the data provider returned: "none" or its class
    rand,           \* the call's TRestorableFastRng64: [seed, state, calls]
    subsetIndexing, \* the subsetIndexing Do makes for the destination (<<>>: not made)
    \* one task
    pc,
    cost,           \* the resource usage the task was registered with
    loc,            \* the locals of ProcessFloatFeature
    dst,            \* the task's slot of data.ObjectsData: the holder built
    taskErr,
    srcAlive,       \* the task's source column holder was not destroyed
    runs,           \* how many times the executor started the task
    atStart,        \* NanMode[f], Borders[f] of the metadata when the task was started
    estimated       \* the last estimate asked for by itself: arguments and results

metaVars == <<info, nanModes, hasBorders, borders, perfectHash, rwMutex>>
opVars == <<options, raw, rss, estimated, opPc, opErr, clearSrcData, subsetForBuildBorders,
            quota, warned, result, rand, subsetIndexing>>
taskVars == <<pc, cost, loc, dst, taskErr, srcAlive, runs, atStart>>
vars == <<metaVars, opVars, taskVars>>

(* ------------------- the raw data as the code reads it ------------------ *)

\* srcIndexing.Size(), objectsGrouping->GetObjectCount()
ObjectCount(o) == Len(raw[o].SubsetIndexing)

\* GetArrayData() of a column: the values in logical order
ArrayData(column, indexing) == [i \in 1..Len(indexing) |-> column[indexing[i]]]

\* Compose(srcIndexing, subset): the physical rows of the subset's logical rows
Compose(srcIndexing, subset) == [i \in 1..Len(subset) |-> srcIndexing[subset[i]]]

(* ------------------------ choosing the subset -------------------------- *)

NeedToCalcBorders == \E f \in info.floatAvail : ~hasBorders[f]

\* the slow border selection types are given at most maxSubsetSize values
GetSampleSizeForBorderSelectionType(objectCount, slowType, maxSubsetSize) ==
    IF slowType THEN Min2(objectCount, maxSubsetSize) ELSE objectCount

SampleSize(o) ==
    GetSampleSizeForBorderSelectionType(
        ObjectCount(o), info.slowBorderSelectionType,
        options[o].MaxSubsetSizeForSlowBuildBordersAlgorithms)

Iota(n) == [i \in 1..n |-> i]

\* an assignment in place of the swap: a[i] = a[j]
SwapAssignOnly(a, i, j) == [a EXCEPT ![i] = a[j]]

Swap(a, i, j) == [a EXCEPT ![i] = a[j], ![j] = a[i]]

\* the generator: its state after a draw, and rand->Uniform(lo, hi) of a state,
\* a number of lo..hi-1; a linear congruential generator stands for
\* TRestorableFastRng64
Advance(r) == [r EXCEPT !.state = (5 * @ + 3) % 16, !.calls = @ + 1]

Uniform(r, lo, hi) == lo + (r.state % (hi - lo))

\* Shuffle(begin, end, rand): for i in 1..n-1 swap(a[i], a[rand.Uniform(i + 1)]),
\* from step i on (rows are counted from 1 here); the array and the generator
RECURSIVE Shuffle(_, _, _)
Shuffle(a, i, r) ==
    IF i > Len(a) THEN [a |-> a, rand |-> r]
    ELSE Shuffle(Swap(a, i, Uniform(r, 1, i + 1)), i + 1, Advance(r))

\* for i in xrange(sampleSize): swap(a[i], a[rand->Uniform(i, objectCount)]),
\* from step i on
RECURSIVE PartialShuffle(_, _, _, _)
PartialShuffle(a, i, sampleSize, r) ==
    IF i > sampleSize THEN [a |-> a, rand |-> r]
    ELSE PartialShuffle(Swap(a, i, Uniform(r, i, Len(a) + 1)), i + 1, sampleSize,
                        Advance(r))

\* the subset drawn from a generator that the running tasks have drawn from too
GetSubsetAfterTaskDraws(o, r) ==
    LET used == [r EXCEPT !.state = (@ + Cardinality({t \in AllTasks : pc[t] # "none"})) % 16]
        randomShuffle == PartialShuffle(Iota(ObjectCount(o)), 1, SampleSize(o), used)
    IN  IF NeedToCalcBorders /\ SampleSize(o) < ObjectCount(o)
        THEN [subset |-> [present |-> TRUE,
                          idx |-> Compose(raw[o].SubsetIndexing,
                                          SubSeq(randomShuffle.a, 1, SampleSize(o)))],
              rand |-> randomShuffle.rand]
        ELSE [subset |-> [present |-> FALSE, idx |-> <<>>], rand |-> r]

\* GetSubsetForBuildBorders with the generator r: the subset returned
\* ([present, idx]) and the generator afterwards
GetSubsetForBuildBorders(o, r) ==
    IF NeedToCalcBorders /\ SampleSize(o) < ObjectCount(o)
    THEN IF raw[o].Order = "RandomShuffled"
         THEN [subset |-> [present |-> TRUE,
                           idx |-> Compose(raw[o].SubsetIndexing, Iota(SampleSize(o)))],
               rand |-> r]
         ELSE LET randomShuffle ==
                      IF options[o].CpuCompatibilityShuffleOverFullData
                      THEN Shuffle(Iota(ObjectCount(o)), 2, r)
                      ELSE PartialShuffle(Iota(ObjectCount(o)), 1, SampleSize(o), r)
              IN  [subset |-> [present |-> TRUE,
                               idx |-> Compose(raw[o].SubsetIndexing,
                                               SubSeq(randomShuffle.a, 1, SampleSize(o)))],
                   rand |-> randomShuffle.rand]
    ELSE [subset |-> [present |-> FALSE, idx |-> <<>>], rand |-> r]

(* ------------------------- memory estimates ---------------------------- *)

\* CalcMemoryForFindBestSplit: what the grid creator says it needs
CalcMemoryForFindBestSplit(borderCount, sampleSize, slowType) ==
    ToU64(info.findBestSplitMem)

EstimateMaxMemUsageForFloatFeature(objectCount, o, clear) ==
    LET sampleSize ==
            GetSampleSizeForBorderSelectionType(
                objectCount, info.slowBorderSelectionType,
                options[o].MaxSubsetSizeForSlowBuildBordersAlgorithms)
        forBorders ==
            IF NeedToCalcBorders
            THEN AddU64(MulU64(4, sampleSize),
                        CalcMemoryForFindBestSplit(info.BorderCount, sampleSize,
                                                   info.slowBorderSelectionType))
            ELSE ToU64(0)
        forData ==
            IF options[o].CpuCompatibleFormat \/ clear
            THEN MulU64(1, objectCount)
            ELSE ToU64(0)
    IN  AddU64(forBorders, forData)

ESTIMATED_FEATURES_PERFECT_HASH_MAP_NODE_SIZE == 32

\* object counts (ui32) the estimates are asked for: small ones, and those
\* about 2^16, 2^27 and 2^31
ObjectCounts ==
    {0, 1, 2, MaxObjects, 65535, 65536, 2^26, 2^27 - 1, 2^27, 2^27 + 1,
     2^28 + 5, 2^30 + (2^30 - 1)}

EstimateMaxMemUsageForCatFeature(objectCount, o, clear) ==
    AddU64(MulU32(ESTIMATED_FEATURES_PERFECT_HASH_MAP_NODE_SIZE, objectCount),
           IF options[o].CpuCompatibleFormat \/ clear
           THEN MulU64(4, objectCount)
           ELSE ToU64(0))

(* ------------------------- border calculation -------------------------- *)

\* the finite values of a sequence, in order
Finite(values) == SelectSeq(values, LAMBDA x : ~IsNan(x))

\* the thresholds BestSplit may pick from: the midpoints of neighbouring
\* distinct values; a zero midpoint may come out as 0.0f or as -0.0f
Midpoints(values) ==
    LET V == Range(values)
        N == {p \in V \X V : p[1] < p[2] /\ ~\E y \in V : p[1] < y /\ y < p[2]}
        M == {(p[1] + p[2]) \div 2 : p \in N}
    IN  M \cup (IF 0 \in M THEN {NegZero} ELSE {})

\* BestSplit(values, borderCount, type): the sets of at most borderCount
\* thresholds it may return; none only when there is nothing to split
BestSplit(values, borderCount) ==
    LET M == Midpoints(values)
    IN  {S \in SUBSET M :
            /\ Cardinality(S) <= borderCount
            /\ ~(0 \in S /\ NegZero \in S)
            /\ (M # {} /\ borderCount > 0) => S # {}}

\* the border set left as BestSplit gave it, a negative zero kept
NormalizeNegativeZeroSkipped(borderSet) == borderSet

\* if (borderSet.has(-0.0f)) { erase(-0.0f); insert(0.0f); }
NormalizeNegativeZero(borderSet) ==
    IF \E x \in borderSet : Val(x) = 0
    THEN {x \in borderSet : Val(x) # 0} \cup {0}
    ELSE borderSet

\* the extremal border of the nan mode
AddNanBorder(nanMode, sorted) ==
    IF nanMode = "Min" THEN <<Lowest>> \o sorted
    ELSE IF nanMode = "Max" THEN Append(sorted, FltMax)
    ELSE sorted

\* Y_VERIFY(borders->size() < 256)
MaxBordersSize == 256

\* the size checked before the border of the nan mode is added
CalcBordersAndNanModeCheckedEarly(values, nanModeOption, borderSet) ==
    LET hasNans == \E i \in 1..Len(values) : IsNan(values[i])
        nanMode == IF hasNans THEN nanModeOption ELSE "Forbidden"
        sorted == SortedSeq(NormalizeNegativeZero(borderSet))
    IN  IF nanModeOption = "Forbidden" /\ hasNans
        THEN [err |-> "CB_ENSURE", nanMode |-> "Forbidden", borders |-> <<>>]
        ELSE IF ~(Len(sorted) < MaxBordersSize)
        THEN [err |-> "Y_VERIFY", nanMode |-> nanMode, borders |-> sorted]
        ELSE [err |-> "none", nanMode |-> nanMode, borders |-> AddNanBorder(nanMode, sorted)]

\* the nan mode taken from the options whether or not a value is missing
CalcBordersAndNanModeOfOption(values, nanModeOption, borderSet) ==
    LET hasNans == \E i \in 1..Len(values) : IsNan(values[i])
        calculated == AddNanBorder(nanModeOption, SortedSeq(NormalizeNegativeZero(borderSet)))
    IN  IF nanModeOption = "Forbidden" /\ hasNans
        THEN [err |-> "CB_ENSURE", nanMode |-> "Forbidden", borders |-> <<>>]
        ELSE IF ~(Len(calculated) < MaxBordersSize)
        THEN [err |-> "Y_VERIFY", nanMode |-> nanModeOption, borders |-> calculated]
        ELSE [err |-> "none", nanMode |-> nanModeOption, borders |-> calculated]

\* CalcBordersAndNanMode on the values of the subset, with BestSplit's answer:
\* the error raised ("none" if none) and *nanMode, *borders
CalcBordersAndNanMode(values, nanModeOption, borderSet) ==
    LET hasNans == \E i \in 1..Len(values) : IsNan(values[i])
        nanMode == IF hasNans THEN nanModeOption ELSE "Forbidden"
        calculated == AddNanBorder(nanMode, SortedSeq(NormalizeNegativeZero(borderSet)))
    IN  IF nanModeOption = "Forbidden" /\ hasNans
        THEN [err |-> "CB_ENSURE", nanMode |-> "Forbidden", borders |-> <<>>]
        ELSE IF ~(Len(calculated) < MaxBordersSize)
        THEN [err |-> "Y_VERIFY", nanMode |-> nanMode, borders |-> calculated]
        ELSE [err |-> "none", nanMode |-> nanMode, borders |-> calculated]

(* ----------------------------- quantization ---------------------------- *)

\* the bucket of a value: the number of borders <= value; a missing value
\* goes to the last bucket under Max and to bucket 0 otherwise
Binarize(nanMode, bordersUsed, value) ==
    IF IsNan(value)
    THEN IF nanMode = "Max" THEN Len(bordersUsed) ELSE 0
    ELSE Cardinality({k \in 1..Len(bordersUsed) : Val(bordersUsed[k]) <= Val(value)})

\* Quantize(srcFeatureData, allowNans, nanMode, id, borders, exec, &quantizedData):
\* the error raised and the ui8 codes written
QuantizeValues(values, allowNans, nanMode, bordersUsed) ==
    IF ~allowNans /\ \E i \in 1..Len(values) : IsNan(values[i])
    THEN [err |-> "CB_ENSURE", codes |-> <<>>]
    ELSE [err |-> "none",
          codes |-> [i \in 1..Len(values) |-> Binarize(nanMode, bordersUsed, values[i]) % 256]]

(* ----------------------------- perfect hash ---------------------------- *)

\* the code of a token of the table: its place, counted from 0
CodeOf(table, token) == (CHOOSE i \in 1..Len(table) : table[i] = token) - 1

\* every value given a new code, also a token that has one
AppendAllAsNew(table, values) == table \o values

\* the table after the values were looked up in order, each new token being
\* given the next code
RECURSIVE UpdatePerfectHash(_, _)
UpdatePerfectHash(table, values) ==
    IF values = <<>> THEN table
    ELSE UpdatePerfectHash(
            IF Head(values) \in Range(table) THEN table ELSE Append(table, Head(values)),
            Tail(values))

\* the two estimates called by themselves, on any object count
NoEstimate == [objectCount |-> 0, clearSrcData |-> FALSE,
               float |-> ToU64(0), cat |-> ToU64(0)]

EstimateMaxMemUsage(o) ==
    /\ opPc[o] = "idle"
    /\ \E objectCount \in ObjectCounts, clear \in BOOLEAN :
         estimated' =
             [objectCount |-> objectCount,
              clearSrcData |-> clear,
              float |-> EstimateMaxMemUsageForFloatFeature(objectCount, o, clear),
              cat |-> EstimateMaxMemUsageForCatFeature(objectCount, o, clear)]
    /\ UNCHANGED <<metaVars, taskVars, options, raw, rss, opPc, opErr, clearSrcData,
                   subsetForBuildBorders, quota, warned, result, rand, subsetIndexing>>

(* ------------------------------ the calls ------------------------------ *)

NoLocals == [calculateNanMode |-> TRUE, nanMode |-> "Forbidden", borders |-> <<>>,
             refersToInfo |-> FALSE, calculatedBorders |-> <<>>]

NoHolder == [kind |-> "none", bitsPerKey |-> 0, codes |-> <<>>, dstSubsetIndexing |-> <<>>]

\* the float tasks alone, the categorical features left without a task
RegisteredFloatTasksOnly(o) == {<<o, "F", f>> : f \in info.floatAvail}

\* the tasks Do registers: one per available float and categorical feature
RegisteredTasks(o) ==
    {<<o, "F", f>> : f \in info.floatAvail} \cup {<<o, "C", c>> : c \in info.catAvail}

\* the resource usage a task is registered with
TaskCost(t, clear) ==
    IF t[2] = "F"
    THEN EstimateMaxMemUsageForFloatFeature(ObjectCount(t[1]), t[1], clear)
    ELSE EstimateMaxMemUsageForCatFeature(ObjectCount(t[1]), t[1], clear)

\* the formats left unchecked
FormatUnchecked(o) == TRUE

\* the subset indexing of the source taken for the destination
DstSubsetIndexingOfSource(o) == raw[o].SubsetIndexing

\* TFullSubset<ui32>(objectsGrouping->GetObjectCount())
DstSubsetIndexing(o) == Iota(ObjectCount(o))

\* CB_ENSURE_INTERNAL(options.CpuCompatibleFormat || options.GpuCompatibleFormat)
FormatOk(o) == options[o].CpuCompatibleFormat \/ options[o].GpuCompatibleFormat

\* the whole limit as the quota, the memory in use not taken off
ResourceQuotaOfWholeLimit(o) == options[o].CpuRamLimit

\* the quota the executor is made with: options.CpuRamLimit - cpuRamUsage, in ui64
ResourceQuota(o) == SubU64(options[o].CpuRamLimit, rss[o])

DoFailFormat(o) ==
    /\ opPc[o] = "idle"
    /\ ~FormatOk(o)
    /\ opPc' = [opPc EXCEPT ![o] = "failed"]
    /\ opErr' = [opErr EXCEPT ![o] = "CB_ENSURE_INTERNAL"]
    /\ UNCHANGED <<metaVars, taskVars, options, raw, rss, estimated, clearSrcData,
                   subsetForBuildBorders, quota, warned, result, rand, subsetIndexing>>

\* Do up to ExecTasks: the subset for the borders, the quota, the tasks
DoStart(o) ==
    /\ opPc[o] = "idle"
    /\ FormatOk(o)
    /\ LET clear == raw[o].RefCount = 1
           drawn == GetSubsetForBuildBorders(o, rand[o])
       IN     /\ clearSrcData' = [clearSrcData EXCEPT ![o] = clear]
              /\ subsetForBuildBorders' = [subsetForBuildBorders EXCEPT ![o] = drawn.subset]
              /\ rand' = [rand EXCEPT ![o] = drawn.rand]
              /\ subsetIndexing' = [subsetIndexing EXCEPT ![o] = DstSubsetIndexing(o)]
              /\ warned' = [warned EXCEPT ![o] = LessU64(options[o].CpuRamLimit, rss[o])]
              /\ quota' = [quota EXCEPT ![o] = ResourceQuota(o)]
              /\ pc' = [t \in AllTasks |->
                          IF t \in RegisteredTasks(o) THEN "queued" ELSE pc[t]]
              /\ cost' = [t \in AllTasks |->
                          IF t \in RegisteredTasks(o) THEN TaskCost(t, clear) ELSE cost[t]]
    /\ opPc' = [opPc EXCEPT ![o] = "exec"]
    /\ UNCHANGED <<metaVars, options, raw, rss, estimated, opErr, result, loc, dst, taskErr,
                   srcAlive, runs, atStart>>

(* ------------------- TResourceConstrainedExecutor ---------------------- *)

\* what the metadata holds for the feature of a float task
NoEntry == [nanMode |-> "None", hasBorders |-> FALSE, borders |-> <<>>]

MetadataEntry(t) ==
    IF t \in FloatTasks
    THEN [nanMode |-> nanModes[t[3]], hasBorders |-> hasBorders[t[3]],
          borders |-> borders[t[3]]]
    ELSE NoEntry

InFlight(o) == {t \in TasksOf(o) : pc[t] \notin {"none", "queued", "done", "failed"}}

Failed(o) == {t \in TasksOf(o) : pc[t] = "failed"}

RECURSIVE SumCost(_)
SumCost(S) ==
    IF S = {} THEN ToU64(0)
    ELSE LET t == CHOOSE x \in S : TRUE IN AddU64(cost[t], SumCost(S \ {t}))

\* a queued task is started while the tasks in flight and it stay within the
\* quota; a task that asks for more than the whole quota is started when
\* nothing else is in flight
ExecTasksAdmit(t) ==
    /\ opPc[t[1]] = "exec"
    /\ pc[t] = "queued"
    /\ Failed(t[1]) = {}
    /\ \/ LeqU64(AddU64(SumCost(InFlight(t[1])), cost[t]), quota[t[1]])
       \/ InFlight(t[1]) = {} /\ LessU64(quota[t[1]], cost[t])
    /\ pc' = [pc EXCEPT ![t] = "start"]
    /\ runs' = [runs EXCEPT ![t] = @ + 1]
    /\ atStart' = [atStart EXCEPT ![t] = MetadataEntry(t)]
    /\ UNCHANGED <<metaVars, opVars, cost, loc, dst, taskErr, srcAlive>>

\* ExecTasks() returned: every task ran to its end
ExecTasksCompleted(o) == \A t \in RegisteredTasks(o) : pc[t] = "done"

\* ExecTasks() threw: a task failed, and the tasks in flight have ended
ExecTasksThrew(o) == Failed(o) # {} /\ InFlight(o) = {}

(* ------------------------ ProcessFloatFeature -------------------------- *)

Fail(t, err) ==
    /\ pc' = [pc EXCEPT ![t] = "failed"]
    /\ taskErr' = [taskErr EXCEPT ![t] = err]

\* TReadGuard readGuard(quantizedFeaturesInfo->GetRWMutex())
FloatAcquireRead(t) ==
    /\ t \in FloatTasks
    /\ pc[t] = "start"
    /\ rwMutex.writer = {}
    /\ rwMutex' = [rwMutex EXCEPT !.readers = @ \cup {t}]
    /\ pc' = [pc EXCEPT ![t] = "rlocked"]
    /\ UNCHANGED <<info, nanModes, hasBorders, borders, perfectHash, opVars,
                   cost, loc, dst, taskErr, srcAlive, runs, atStart>>

\* the guarded block: HasNanMode, GetNanMode, HasBorders, GetBorders
FloatReadInfo(t) ==
    /\ t \in FloatTasks
    /\ pc[t] = "rlocked"
    /\ loc' = [loc EXCEPT ![t] =
                [calculateNanMode |-> nanModes[t[3]] = "None",
                 nanMode |-> IF nanModes[t[3]] = "None" THEN "Forbidden" ELSE nanModes[t[3]],
                 borders |-> IF hasBorders[t[3]] THEN borders[t[3]] ELSE <<>>,
                 refersToInfo |-> hasBorders[t[3]],
                 calculatedBorders |-> <<>>]]
    /\ rwMutex' = [rwMutex EXCEPT !.readers = @ \ {t}]
    /\ pc' = [pc EXCEPT ![t] = "check"]
    /\ UNCHANGED <<info, nanModes, hasBorders, borders, perfectHash, opVars,
                   cost, dst, taskErr, srcAlive, runs, atStart>>

\* the values CalcBordersAndNanMode reads: the column through the subset for
\* the borders, or through SubsetIndexing when there is none
ValuesForBuildBorders(t) ==
    ArrayData(raw[t[1]].FloatFeatures[t[3]],
              IF subsetForBuildBorders[t[1]].present
              THEN subsetForBuildBorders[t[1]].idx
              ELSE raw[t[1]].SubsetIndexing)

\* CB_ENSURE_INTERNAL(calculateNanMode == !borders), then CalcBordersAndNanMode
\* if (calculateNanMode || !borders)
FloatCalcBorders(t) ==
    /\ t \in FloatTasks
    /\ pc[t] = "check"
    /\ IF loc[t].calculateNanMode # (loc[t].borders = <<>>)
       THEN Fail(t, "CB_ENSURE_INTERNAL") /\ UNCHANGED loc
       ELSE IF loc[t].calculateNanMode \/ loc[t].borders = <<>>
       THEN \E borderSet \in BestSplit(Finite(ValuesForBuildBorders(t)), info.BorderCount) :
              LET r == CalcBordersAndNanMode(ValuesForBuildBorders(t), info.NanMode, borderSet)
              IN  IF r.err # "none"
                  THEN Fail(t, r.err) /\ UNCHANGED loc
                  ELSE /\ loc' = [loc EXCEPT ![t].nanMode = r.nanMode,
                                             ![t].calculatedBorders = r.borders,
                                             ![t].borders = r.borders,
                                             ![t].refersToInfo = FALSE]
                       /\ pc' = [pc EXCEPT ![t] = "quantize"]
                       /\ UNCHANGED taskErr
       ELSE /\ pc' = [pc EXCEPT ![t] = "quantize"]
            /\ UNCHANGED <<loc, taskErr>>
    /\ UNCHANGED <<metaVars, opVars, cost, dst, srcAlive, runs, atStart>>

\* the answer of BestSplit for a column with more distinct values than
\* thresholds asked for: borderCount thresholds
ThresholdsGiven(borderCount) == 1..borderCount

\* FloatCalcBorders for such a column: the column of the model stands for its
\* missing values only, and BestSplit answers ThresholdsGiven(BorderCount)
FloatCalcBordersGiven(t) ==
    /\ t \in FloatTasks
    /\ pc[t] = "check"
    /\ IF loc[t].calculateNanMode # (loc[t].borders = <<>>)
       THEN Fail(t, "CB_ENSURE_INTERNAL") /\ UNCHANGED loc
       ELSE IF loc[t].calculateNanMode \/ loc[t].borders = <<>>
       THEN LET r == CalcBordersAndNanMode(ValuesForBuildBorders(t), info.NanMode,
                                           ThresholdsGiven(info.BorderCount))
            IN  IF r.err # "none"
                THEN Fail(t, r.err) /\ UNCHANGED loc
                ELSE /\ loc' = [loc EXCEPT ![t].nanMode = r.nanMode,
                                           ![t].calculatedBorders = r.borders,
                                           ![t].borders = r.borders,
                                           ![t].refersToInfo = FALSE]
                     /\ pc' = [pc EXCEPT ![t] = "quantize"]
                     /\ UNCHANGED taskErr
       ELSE /\ pc' = [pc EXCEPT ![t] = "quantize"]
            /\ UNCHANGED <<loc, taskErr>>
    /\ UNCHANGED <<metaVars, opVars, cost, dst, srcAlive, runs, atStart>>

\* what Quantize reads through `borders`: the calculated borders, or, through
\* the array reference taken under the read guard, the storage of Borders[f];
\* if that storage was replaced meanwhile the reference dangles, and the read
\* gives the old or the new content
BordersRead(t) ==
    IF loc[t].refersToInfo THEN {loc[t].borders, borders[t[3]]} ELSE {loc[t].borders}

\* the condition of the write back block
NeedsWrite(t) == loc[t].calculateNanMode \/ loc[t].calculatedBorders # <<>>

\* the column in physical order, SubsetIndexing left out
SrcFeatureDataUnindexed(t) == raw[t[1]].FloatFeatures[t[3]]

\* srcFeature.GetArrayData(): the column in logical order
SrcFeatureData(t) == ArrayData(raw[t[1]].FloatFeatures[t[3]], raw[t[1]].SubsetIndexing)

\* the holder set before Quantize has filled it, and left set when it fails
FloatQuantizeHolderFirst(t) ==
    /\ t \in FloatTasks
    /\ pc[t] = "quantize"
    /\ LET o == t[1]
           values == SrcFeatureData(t)
           allowNans == loc[t].nanMode # "Forbidden" \/ info.allowNansInTestOnly
           next == IF NeedsWrite(t) THEN "towrite" ELSE "finish"
       IN  IF ~options[o].CpuCompatibleFormat /\ ~clearSrcData[o]
           THEN /\ dst' = [dst EXCEPT ![t] =
                            [kind |-> "external", bitsPerKey |-> 0, codes |-> <<>>,
                             dstSubsetIndexing |-> subsetIndexing[o]]]
                /\ pc' = [pc EXCEPT ![t] = next]
                /\ UNCHANGED taskErr
           ELSE \E used \in BordersRead(t) :
                  LET q == QuantizeValues(values, allowNans, loc[t].nanMode, used)
                  IN  /\ dst' = [dst EXCEPT ![t] =
                                   [kind |-> "compressed", bitsPerKey |-> 8,
                                    codes |-> q.codes,
                                    dstSubsetIndexing |-> subsetIndexing[o]]]
                      /\ IF q.err # "none"
                         THEN Fail(t, q.err)
                         ELSE pc' = [pc EXCEPT ![t] = next] /\ UNCHANGED taskErr
    /\ UNCHANGED <<metaVars, opVars, cost, loc, srcAlive, runs, atStart>>

\* the holder: external when neither the CPU format is asked for nor the
\* source is cleared, else the column quantized into 8 bit keys
FloatQuantize(t) ==
    /\ t \in FloatTasks
    /\ pc[t] = "quantize"
    /\ LET o == t[1]
           values == SrcFeatureData(t)
           allowNans == loc[t].nanMode # "Forbidden" \/ info.allowNansInTestOnly
           next == IF NeedsWrite(t) THEN "towrite" ELSE "finish"
       IN  IF ~options[o].CpuCompatibleFormat /\ ~clearSrcData[o]
           THEN /\ dst' = [dst EXCEPT ![t] =
                            [kind |-> "external", bitsPerKey |-> 0, codes |-> <<>>,
                             dstSubsetIndexing |-> subsetIndexing[o]]]
                /\ pc' = [pc EXCEPT ![t] = next]
                /\ UNCHANGED taskErr
           ELSE \E used \in BordersRead(t) :
                  LET q == QuantizeValues(values, allowNans, loc[t].nanMode, used)
                  IN  IF q.err # "none"
                      THEN Fail(t, q.err) /\ UNCHANGED dst
                      ELSE /\ dst' = [dst EXCEPT ![t] =
                                       [kind |-> "compressed", bitsPerKey |-> 8,
                                        codes |-> q.codes,
                                        dstSubsetIndexing |-> subsetIndexing[o]]]
                           /\ pc' = [pc EXCEPT ![t] = next]
                           /\ UNCHANGED taskErr
    /\ UNCHANGED <<metaVars, opVars, cost, loc, srcAlive, runs, atStart>>

\* TWriteGuard writeGuard(quantizedFeaturesInfo->GetRWMutex())
FloatAcquireWrite(t) ==
    /\ t \in FloatTasks
    /\ pc[t] = "towrite"
    /\ rwMutex.writer = {} /\ rwMutex.readers = {}
    /\ rwMutex' = [rwMutex EXCEPT !.writer = {t}]
    /\ pc' = [pc EXCEPT ![t] = "wlocked"]
    /\ UNCHANGED <<info, nanModes, hasBorders, borders, perfectHash, opVars,
                   cost, loc, dst, taskErr, srcAlive, runs, atStart>>

\* the guarded block: SetNanMode if calculateNanMode, SetBorders if the
\* calculated borders are not empty
FloatWriteInfo(t) ==
    /\ t \in FloatTasks
    /\ pc[t] = "wlocked"
    /\ nanModes' = IF loc[t].calculateNanMode
                   THEN [nanModes EXCEPT ![t[3]] = loc[t].nanMode]
                   ELSE nanModes
    /\ hasBorders' = IF loc[t].calculatedBorders # <<>>
                     THEN [hasBorders EXCEPT ![t[3]] = TRUE]
                     ELSE hasBorders
    /\ borders' = IF loc[t].calculatedBorders # <<>>
                  THEN [borders EXCEPT ![t[3]] = loc[t].calculatedBorders]
                  ELSE borders
    /\ rwMutex' = [rwMutex EXCEPT !.writer = {}]
    /\ pc' = [pc EXCEPT ![t] = "finish"]
    /\ UNCHANGED <<info, perfectHash, opVars, cost, loc, dst, taskErr, srcAlive, runs, atStart>>

(* ------------------------- ProcessCatFeature --------------------------- *)

\* the perfect hash of the feature is updated under the write guard
CatAcquireWrite(t) ==
    /\ t \in CatTasks
    /\ pc[t] = "start"
    /\ rwMutex.writer = {} /\ rwMutex.readers = {}
    /\ rwMutex' = [rwMutex EXCEPT !.writer = {t}]
    /\ pc' = [pc EXCEPT ![t] = "wlocked"]
    /\ UNCHANGED <<info, nanModes, hasBorders, borders, perfectHash, opVars,
                   cost, loc, dst, taskErr, srcAlive, runs, atStart>>

\* UpdatePerfectHashAndMaybeQuantize, then the holder: external, or the codes
\* in 32 bit keys
CatUpdatePerfectHash(t) ==
    /\ t \in CatTasks
    /\ pc[t] = "wlocked"
    /\ LET o == t[1]
           values == ArrayData(raw[o].CatFeatures[t[3]], raw[o].SubsetIndexing)
           table == UpdatePerfectHash(perfectHash[t[3]], values)
           storeAsExternalValuesHolder == ~options[o].CpuCompatibleFormat /\ ~clearSrcData[o]
       IN  /\ perfectHash' = [perfectHash EXCEPT ![t[3]] = table]
           /\ dst' = [dst EXCEPT ![t] =
                       IF storeAsExternalValuesHolder
                       THEN [kind |-> "external", bitsPerKey |-> 0, codes |-> <<>>,
                             dstSubsetIndexing |-> subsetIndexing[o]]
                       ELSE [kind |-> "compressed", bitsPerKey |-> 32,
                             codes |-> [i \in 1..Len(values) |-> CodeOf(table, values[i])],
                             dstSubsetIndexing |-> subsetIndexing[o]]]
    /\ rwMutex' = [rwMutex EXCEPT !.writer = {}]
    /\ pc' = [pc EXCEPT ![t] = "finish"]
    /\ UNCHANGED <<info, nanModes, hasBorders, borders, opVars, cost, loc, taskErr,
                   srcAlive, runs, atStart>>

(* --------------------------- the end of a task ------------------------- *)

\* the source column destroyed whatever clearSrcData says
TaskFinishDestroyAlways(t) ==
    /\ pc[t] = "finish"
    /\ srcAlive' = [srcAlive EXCEPT ![t] = FALSE]
    /\ pc' = [pc EXCEPT ![t] = "done"]
    /\ UNCHANGED <<metaVars, opVars, cost, loc, dst, taskErr, runs, atStart>>

\* the source column never destroyed
TaskFinishKeepsSource(t) ==
    /\ pc[t] = "finish"
    /\ pc' = [pc EXCEPT ![t] = "done"]
    /\ UNCHANGED <<metaVars, opVars, cost, loc, dst, taskErr, srcAlive, runs, atStart>>

\* if (clearSrcData) { srcFeatureHolder.Destroy(); }
TaskFinish(t) ==
    /\ pc[t] = "finish"
    /\ srcAlive' = [srcAlive EXCEPT ![t] = ~clearSrcData[t[1]]]
    /\ pc' = [pc EXCEPT ![t] = "done"]
    /\ UNCHANGED <<metaVars, opVars, cost, loc, dst, taskErr, runs, atStart>>

(* --------------------------- the end of a call ------------------------- *)

\* an exception of a task leaves Do through ExecTasks: nothing is returned
DoAbort(o) ==
    /\ opPc[o] = "exec"
    /\ ExecTasksThrew(o)
    /\ \E t \in Failed(o) : opErr' = [opErr EXCEPT ![o] = taskErr[t]]
    /\ opPc' = [opPc EXCEPT ![o] = "failed"]
    /\ UNCHANGED <<metaVars, taskVars, options, raw, rss, estimated, clearSrcData,
                   subsetForBuildBorders, quota, warned, result, rand, subsetIndexing>>

\* the data provider returned once no task is queued or in flight, an
\* exception of a task swallowed
DoReturnDespiteFailure(o) ==
    /\ opPc[o] = "exec"
    /\ \A t \in RegisteredTasks(o) : pc[t] \in {"done", "failed"}
    /\ result' = [result EXCEPT ![o] =
                    IF options[o].CpuCompatibleFormat
                    THEN "TQuantizedForCPUObjectsDataProvider"
                    ELSE "TQuantizedObjectsDataProvider"]
    /\ opPc' = [opPc EXCEPT ![o] = "returned"]
    /\ UNCHANGED <<metaVars, taskVars, options, raw, rss, estimated, opErr, clearSrcData,
                   subsetForBuildBorders, quota, warned, rand, subsetIndexing>>

\* the data provider is made from the holders and returned
DoReturn(o) ==
    /\ opPc[o] = "exec"
    /\ ExecTasksCompleted(o)
    /\ result' = [result EXCEPT ![o] =
                    IF options[o].CpuCompatibleFormat
                    THEN "TQuantizedForCPUObjectsDataProvider"
                    ELSE "TQuantizedObjectsDataProvider"]
    /\ opPc' = [opPc EXCEPT ![o] = "returned"]
    /\ UNCHANGED <<metaVars, taskVars, options, raw, rss, estimated, opErr, clearSrcData,
                   subsetForBuildBorders, quota, warned, rand, subsetIndexing>>

Next ==
    \/ \E o \in Ops : DoFailFormat(o)
    \/ \E o \in Ops : DoStart(o)
    \/ \E t \in AllTasks : ExecTasksAdmit(t)
    \/ \E t \in AllTasks : FloatAcquireRead(t)
    \/ \E t \in AllTasks : FloatReadInfo(t)
    \/ \E t \in AllTasks : FloatCalcBorders(t)
    \/ \E t \in AllTasks : FloatQuantize(t)
    \/ \E t \in AllTasks : FloatAcquireWrite(t)
    \/ \E t \in AllTasks : FloatWriteInfo(t)
    \/ \E t \in AllTasks : CatAcquireWrite(t)
    \/ \E t \in AllTasks : CatUpdatePerfectHash(t)
    \/ \E t \in AllTasks : TaskFinish(t)
    \/ \E o \in Ops : DoAbort(o)
    \/ \E o \in Ops : DoReturn(o)

(* ---------------------------- initial states --------------------------- *)

\* the options of a call
Options(cpu, gpu, maxSubsetSize, cpuRamLimit, shuffleOverFullData) ==
    [CpuCompatibleFormat |-> cpu,
     GpuCompatibleFormat |-> gpu,
     MaxSubsetSizeForSlowBuildBordersAlgorithms |-> maxSubsetSize,
     CpuRamLimit |-> ToU64(cpuRamLimit),
     CpuCompatibilityShuffleOverFullData |-> shuffleOverFullData]

\* a raw data provider whose float columns are all floatColumn and whose
\* categorical columns are all catColumn
RawData(floatColumn, catColumn, indexing, order, refCount) ==
    [FloatFeatures |-> [f \in FloatIdx |-> floatColumn],
     CatFeatures |-> [c \in CatIdx |-> catColumn],
     SubsetIndexing |-> indexing,
     Order |-> order,
     RefCount |-> refCount]

\* the hashed tokens of a categorical column of n rows
CatColumn(n) == [i \in 1..n |-> 7 + (i % 2)]

\* a categorical column that begins with a token CatColumn has not, and holds
\* one of CatColumn's tokens after it
OtherCatColumn(n) == [i \in 1..n |-> IF i = 1 THEN 9 ELSE 7]

\* a call that is never made
NoOptions == Options(TRUE, TRUE, 1, 0, FALSE)
NoRawData == RawData(<<2>>, <<7>>, <<1>>, "Undefined", 2)

\* a new TQuantizedFeaturesInfo `inf`, and the calls of `active` not yet made
Start(inf, active, opts, rw, rs, seeds) ==
    /\ info = inf
    /\ nanModes = [f \in FloatIdx |-> "None"]
    /\ hasBorders = [f \in FloatIdx |-> FALSE]
    /\ borders = [f \in FloatIdx |-> <<>>]
    /\ perfectHash = [c \in CatIdx |-> <<>>]
    /\ rwMutex = [readers |-> {}, writer |-> {}]
    /\ options = [o \in Ops |-> IF o \in active THEN opts[o] ELSE NoOptions]
    /\ raw = [o \in Ops |-> IF o \in active THEN rw[o] ELSE NoRawData]
    /\ rss = [o \in Ops |-> IF o \in active THEN ToU64(rs[o]) ELSE ToU64(0)]
    /\ opPc = [o \in Ops |-> IF o \in active THEN "idle" ELSE "absent"]
    /\ opErr = [o \in Ops |-> "none"]
    /\ clearSrcData = [o \in Ops |-> FALSE]
    /\ subsetForBuildBorders = [o \in Ops |-> [present |-> FALSE, idx |-> <<>>]]
    /\ quota = [o \in Ops |-> ToU64(0)]
    /\ warned = [o \in Ops |-> FALSE]
    /\ result = [o \in Ops |-> "none"]
    /\ rand = [o \in Ops |-> [seed |-> seeds[o], state |-> seeds[o], calls |-> 0]]
    /\ subsetIndexing = [o \in Ops |-> <<>>]
    /\ pc = [t \in AllTasks |-> "none"]
    /\ cost = [t \in AllTasks |-> ToU64(0)]
    /\ loc = [t \in AllTasks |-> NoLocals]
    /\ dst = [t \in AllTasks |-> NoHolder]
    /\ taskErr = [t \in AllTasks |-> "none"]
    /\ srcAlive = [t \in AllTasks |-> TRUE]
    /\ runs = [t \in AllTasks |-> 0]
    /\ atStart = [t \in AllTasks |-> NoEntry]
    /\ estimated = NoEstimate

Info(floatAvail, catAvail, nanMode, borderCount, allowNans, mem) ==
    [floatAvail |-> floatAvail,
     catAvail |-> catAvail,
     NanMode |-> nanMode,
     BorderCount |-> borderCount,
     slowBorderSelectionType |-> TRUE,
     allowNansInTestOnly |-> allowNans,
     findBestSplitMem |-> mem]

\* the formats a call may ask for: CPU, GPU only, or (wrongly) none
Formats == {<<TRUE, FALSE>>, <<FALSE, TRUE>>, <<FALSE, FALSE>>}

\* the columns of n rows
Columns(n) == [1..n -> ColumnValues]

Reverse(s) == [i \in 1..Len(s) |-> s[Len(s) + 1 - i]]

\* the seeds a call's generator may be made with: enough for the first draw
\* to reach every row
Seeds == 0..(MaxObjects - 1)

\* one call: every column, subset indexing, nan mode and border count
InitSolo ==
    \E column \in Columns(MaxObjects),
       indexing \in {Iota(MaxObjects), Reverse(Iota(MaxObjects)), <<MaxObjects, 1>>},
       nanMode \in ENanModes,
       borderCount \in BorderCounts,
       allowNans \in BOOLEAN,
       format \in Formats,
       maxSubsetSize \in {1, MaxObjects},
       refCount \in {1, 2},
       withCat \in BOOLEAN,
       seed \in Seeds :
        /\ indexing # Iota(MaxObjects) => maxSubsetSize = MaxObjects
        /\ maxSubsetSize = MaxObjects => seed = 0
        /\ format[1] => refCount = 2
        /\ withCat => /\ indexing = Iota(MaxObjects)
                      /\ borderCount = 1
                      /\ column \in {[i \in 1..MaxObjects |-> 2 * i],
                                     [i \in 1..MaxObjects |-> NaN]}
        /\ format = <<FALSE, FALSE>> => withCat
        /\ Start(Info({0}, IF withCat THEN {0} ELSE {}, nanMode, borderCount, allowNans, 0),
                 {1},
                 [o \in Ops |-> Options(format[1], format[2], maxSubsetSize, 1000, FALSE)],
                 [o \in Ops |-> RawData(column, CatColumn(MaxObjects), indexing,
                                        "Undefined", refCount)],
                 [o \in Ops |-> 0],
                 [o \in Ops |-> seed])

SpecSolo == InitSolo /\ [][Next]_vars

\* the columns the two calls of InitPair are given: a constant one, two with
\* different midpoints, one with a missing value
PairColumns ==
    {[i \in 1..MaxObjects |-> 2],
     [i \in 1..MaxObjects |-> IF i = 1 THEN -2 ELSE 2],
     [i \in 1..MaxObjects |-> IF i = 1 THEN 2 ELSE 4],
     [i \in 1..MaxObjects |-> IF i = 1 THEN NaN ELSE 4]}

\* two calls (learn and test data, say) on one TQuantizedFeaturesInfo; each
\* may be made at any time, before, while or after the other runs
InitPair ==
    \E column1 \in PairColumns, column2 \in PairColumns,
       nanMode \in {"Forbidden", "Min"},
       allowNans \in BOOLEAN,
       format1 \in Formats, format2 \in Formats,
       refCount \in {1, 2},
       withCat \in BOOLEAN :
        /\ withCat => /\ column1 = column2
                      /\ column1 = [i \in 1..MaxObjects |-> 2]
                      /\ format1 = format2
                      /\ nanMode = "Forbidden"
        /\ format1 = <<FALSE, FALSE>> => withCat
        /\ format2 = <<FALSE, FALSE>> => withCat
        /\ Start(Info({0}, IF withCat THEN {0} ELSE {}, nanMode, 1, allowNans, 0),
                 {1, 2},
                 [o \in Ops |-> IF o = 1
                                THEN Options(format1[1], format1[2], MaxObjects, 1000, FALSE)
                                ELSE Options(format2[1], format2[2], MaxObjects, 1000, FALSE)],
                 [o \in Ops |-> IF o = 1
                                THEN RawData(column1, CatColumn(MaxObjects),
                                             Iota(MaxObjects), "Undefined", refCount)
                                ELSE RawData(column2, OtherCatColumn(MaxObjects),
                                             Iota(MaxObjects), "Undefined", 2)],
                 [o \in Ops |-> 0],
                 [o \in Ops |-> 0])

\* one call with a task for every feature, under every quota
InitSched ==
    \E cpuRamLimit \in {25, 80, 100, 200},
       cpuRamUsage \in {0, 70},
       mem \in {0, 90},
       refCount \in {1, 2},
       format \in {<<TRUE, FALSE>>, <<FALSE, FALSE>>},
       column \in {[i \in 1..MaxObjects |-> 2 * i], [i \in 1..MaxObjects |-> NaN]} :
        /\ refCount = 1 => cpuRamLimit = 100 /\ cpuRamUsage = 0
        /\ format = <<FALSE, FALSE>> => cpuRamLimit = 200 /\ cpuRamUsage = 0 /\ mem = 0
        /\ column[1] = NaN => cpuRamLimit \in {25, 200} /\ mem = 0
        /\ Start(Info(FloatIdx, CatIdx, "Forbidden", 1, FALSE, mem),
                 {1},
                 [o \in Ops |-> Options(format[1], format[2], MaxObjects, cpuRamLimit,
                                        TRUE)],
                 [o \in Ops |-> RawData(column, CatColumn(MaxObjects), Iota(MaxObjects),
                                        "RandomShuffled", refCount)],
                 [o \in Ops |-> cpuRamUsage],
                 [o \in Ops |-> 0])

\* two calls with the same input, options and seed on one new
\* TQuantizedFeaturesInfo, under every way of choosing the subset for the
\* borders; the second may start before or after the first stored its borders
InitSubset ==
    \E order \in {"Undefined", "RandomShuffled"},
       shuffleOverFullData \in BOOLEAN,
       maxSubsetSize \in 1..MaxObjects,
       seed \in Seeds,
       indexing \in {Iota(MaxObjects), Reverse(Iota(MaxObjects))},
       format \in {<<TRUE, FALSE>>, <<FALSE, FALSE>>},
       column \in {[i \in 1..MaxObjects |-> 2 * i], [i \in 1..MaxObjects |-> NaN]} :
        /\ order = "RandomShuffled" => ~shuffleOverFullData /\ seed = 0
        /\ maxSubsetSize = MaxObjects => seed = 0 /\ ~shuffleOverFullData
        /\ (format = <<FALSE, FALSE>> \/ column[1] = NaN) =>
                /\ order = "Undefined" /\ maxSubsetSize = MaxObjects
                /\ indexing = Iota(MaxObjects)
        /\ Start(Info({0}, {0}, "Forbidden", 1, FALSE, 0),
                 {1, 2},
                 [o \in Ops |-> Options(format[1], format[2], maxSubsetSize, 1000,
                                        shuffleOverFullData)],
                 [o \in Ops |-> RawData(column, CatColumn(MaxObjects), indexing, order, 2)],
                 [o \in Ops |-> 0],
                 [o \in Ops |-> seed])

SpecSubset == InitSubset /\ [][Next]_vars

\* the border counts at the limit of what a border list may hold
ManyBorderCounts == {MaxBordersSize - 2, MaxBordersSize - 1, MaxBordersSize}

\* one call whose float column has many distinct values, with and without a
\* missing value, under every nan mode
InitBorders ==
    \E nanMode \in ENanModes,
       borderCount \in ManyBorderCounts,
       format \in {<<TRUE, FALSE>>, <<FALSE, FALSE>>},
       column \in {[i \in 1..MaxObjects |-> 2 * i],
                   [i \in 1..MaxObjects |-> IF i = 1 THEN NaN ELSE 2 * i]} :
        /\ format = <<FALSE, FALSE>> => nanMode = "Forbidden" /\ column[1] # NaN
        /\ Start(Info({0}, {0}, nanMode, borderCount, FALSE, 0),
                 {1},
                 [o \in Ops |-> Options(format[1], format[2], MaxObjects, 1000, FALSE)],
                 [o \in Ops |-> RawData(column, CatColumn(MaxObjects), Iota(MaxObjects),
                                        "Undefined", 2)],
                 [o \in Ops |-> 0],
                 [o \in Ops |-> 0])

NextBorders ==
    \/ \E o \in Ops : DoFailFormat(o)
    \/ \E o \in Ops : DoStart(o)
    \/ \E t \in AllTasks : ExecTasksAdmit(t)
    \/ \E t \in AllTasks : FloatAcquireRead(t)
    \/ \E t \in AllTasks : FloatReadInfo(t)
    \/ \E t \in AllTasks : FloatCalcBordersGiven(t)
    \/ \E t \in AllTasks : FloatQuantize(t)
    \/ \E t \in AllTasks : FloatAcquireWrite(t)
    \/ \E t \in AllTasks : FloatWriteInfo(t)
    \/ \E t \in AllTasks : CatAcquireWrite(t)
    \/ \E t \in AllTasks : CatUpdatePerfectHash(t)
    \/ \E t \in AllTasks : TaskFinish(t)
    \/ \E o \in Ops : DoAbort(o)
    \/ \E o \in Ops : DoReturn(o)

SpecBorders == InitBorders /\ [][NextBorders]_vars

Spec == InitPair /\ [][Next]_vars

\* three calls on one TQuantizedFeaturesInfo, each made at any time: the
\* columns of calls 1 and 2 give different borders; call 3 has the column of
\* call 1, or one with a missing value, or asks for no format
InitTrio ==
    \E column3 \in {[i \in 1..MaxObjects |-> IF i = 1 THEN -2 ELSE 2],
                    [i \in 1..MaxObjects |-> IF i = 1 THEN NaN ELSE 4]},
       format3 \in {<<TRUE, FALSE>>, <<FALSE, FALSE>>} :
        /\ format3 = <<FALSE, FALSE>> => column3[1] # NaN
        /\ Start(Info({0}, IF format3[1] THEN {} ELSE {0}, "Forbidden", 1, FALSE, 0),
                 {1, 2, 3},
                 [o \in Ops |-> IF o = 3
                                THEN Options(format3[1], format3[2], MaxObjects, 1000, FALSE)
                                ELSE Options(TRUE, FALSE, MaxObjects, 1000, FALSE)],
                 [o \in Ops |-> RawData(IF o = 1
                                        THEN [i \in 1..MaxObjects |-> IF i = 1 THEN -2 ELSE 2]
                                        ELSE IF o = 2
                                        THEN [i \in 1..MaxObjects |-> IF i = 1 THEN 2 ELSE 4]
                                        ELSE column3,
                                        CatColumn(MaxObjects), Iota(MaxObjects),
                                        "Undefined", 2)],
                 [o \in Ops |-> 0],
                 [o \in Ops |-> 0])

SpecTrio == InitTrio /\ [][Next]_vars

\* one call not yet made, whose options and metadata the estimates are given
InitEstimate ==
    \E cpu \in BOOLEAN, maxSubsetSize \in {1, MaxObjects}, mem \in {0, 90} :
        Start(Info({0}, {0}, "Forbidden", 1, FALSE, mem),
              {1},
              [o \in Ops |-> Options(cpu, ~cpu, maxSubsetSize, 1000, FALSE)],
              [o \in Ops |-> RawData([i \in 1..MaxObjects |-> 2], CatColumn(MaxObjects),
                                     Iota(MaxObjects), "Undefined", 2)],
              [o \in Ops |-> 0],
              [o \in Ops |-> 0])

NextEstimate == \E o \in Ops : EstimateMaxMemUsage(o)

SpecEstimate == InitEstimate /\ [][NextEstimate]_vars

SpecSched == InitSched /\ [][Next]_vars

\* the worker threads run every started task on, and the thread of each call
TaskStep(t) ==
    \/ ExecTasksAdmit(t) \/ FloatAcquireRead(t) \/ FloatReadInfo(t) \/ FloatCalcBorders(t)
    \/ FloatQuantize(t) \/ FloatAcquireWrite(t) \/ FloatWriteInfo(t)
    \/ CatAcquireWrite(t) \/ CatUpdatePerfectHash(t) \/ TaskFinish(t)

OpStep(o) == DoFailFormat(o) \/ DoStart(o) \/ DoAbort(o) \/ DoReturn(o)

\* a thread that can take a step takes one; every behaviour is finite, so no
\* task can be passed over for ever
Fairness == WF_vars((\E t \in AllTasks : TaskStep(t)) \/ (\E o \in Ops : OpStep(o)))

FairSpecSched == InitSched /\ [][Next]_vars /\ Fairness

(* ------------------------------ the claims ----------------------------- *)

HasNan(values) == \E i \in 1..Len(values) : values[i] = NaN

\* the column of a float task in logical order
LogicalColumn(t) == ArrayData(raw[t[1]].FloatFeatures[t[3]], raw[t[1]].SubsetIndexing)

NeitherFormat(o) == ~options[o].CpuCompatibleFormat /\ ~options[o].GpuCompatibleFormat

\* C1: in every reachable state each float feature has both a nan mode and
\* borders or neither, and no task fails the check "NanMode and borders must
\* be specified or not specified together".
C1_NanModeAndBordersTogether ==
    /\ \A f \in FloatIdx : (nanModes[f] # "None") <=> hasBorders[f]
    /\ \A t \in FloatTasks : taskErr[t] # "CB_ENSURE_INTERNAL"

\* C2: a float task holds the write guard to write its nan mode and borders
\* only while the info has no entry for its feature, so an entry that is
\* present is never overwritten.
C2_WriteOnlyIfAbsent ==
    \A t \in FloatTasks :
        pc[t] = "wlocked" => nanModes[t[3]] = "None" /\ ~hasBorders[t[3]]

\* C3: the estimates of the tasks in flight of a call sum to at most the
\* budget CpuRamLimit - cpuRamUsage, unless a single task whose estimate
\* alone exceeds the budget is in flight alone.
C3_InFlightWithinBudget ==
    \A o \in Ops :
        LET budget == SubU64(options[o].CpuRamLimit, rss[o])
        IN  \/ LeqU64(SumCost(InFlight(o)), budget)
            \/ /\ Cardinality(InFlight(o)) = 1
               /\ \A t \in InFlight(o) : LessU64(budget, cost[t])

C3_Witness ==
    \E o \in Ops :
        /\ Cardinality(InFlight(o)) = 1
        /\ \A t \in InFlight(o) : LessU64(SubU64(options[o].CpuRamLimit, rss[o]), cost[t])
        /\ \E t \in TasksOf(o) : pc[t] = "done"
        /\ \E t \in TasksOf(o) : pc[t] = "queued"

\* the tasks a call owes: one per available float and categorical feature
OwedTasks(o) ==
    {t \in TasksOf(o) : IF t[2] = "F" THEN t[3] \in info.floatAvail
                                      ELSE t[3] \in info.catAvail}

AllRanOnce(o) == \A t \in OwedTasks(o) : pc[t] = "done" /\ runs[t] = 1

\* C4: no task is started twice, and unless a task fails every task of a call
\* whose formats are right is eventually run to its end, exactly once.
C4_EveryTaskRunsOnce ==
    /\ [](\A t \in AllTasks : runs[t] <= 1)
    /\ <>(\A o \in Ops : \/ opPc[o] = "absent"
                          \/ NeitherFormat(o)
                          \/ Failed(o) # {}
                          \/ AllRanOnce(o))

C4_Witness ==
    \E o \in Ops :
        /\ AllRanOnce(o)
        /\ Cardinality(OwedTasks(o)) >= 3
        /\ \E t \in OwedTasks(o) : LessU64(quota[o], cost[t])

\* C5: a call one of whose tasks failed never returns a data provider; it
\* ends failed, with the error of a failed task.
C5_FailureAbortsCall ==
    \A o \in Ops :
        /\ Failed(o) # {} => opPc[o] \in {"exec", "failed"} /\ result[o] = "none"
        /\ opPc[o] = "failed" => opErr[o] # "none" /\ result[o] = "none"
        /\ opPc[o] = "returned" => result[o] # "none"

C5_Witness ==
    \E o \in Ops :
        /\ opPc[o] = "failed"
        /\ \E t \in TasksOf(o) : pc[t] = "failed"
        /\ \E t \in TasksOf(o) : pc[t] = "done"

\* C6: under the nan mode option Forbidden, a call with a float column that
\* holds a missing value at any row ends failed with the user error of
\* CB_ENSURE.
C6_ForbiddenNanFails ==
    \A t \in FloatTasks :
        (/\ info.NanMode = "Forbidden"
         /\ t \in OwedTasks(t[1])
         /\ ~NeitherFormat(t[1])
         /\ HasNan(LogicalColumn(t))
         /\ opPc[t[1]] \in {"returned", "failed"})
        => opPc[t[1]] = "failed" /\ opErr[t[1]] = "CB_ENSURE"

\* the codes of the missing values of a task's column all equal `code`
NanCodesAre(t, code) ==
    dst[t].kind = "compressed" =>
        \A i \in 1..Len(LogicalColumn(t)) :
            LogicalColumn(t)[i] = NaN => dst[t].codes[i] = code

\* C7: for a column with a missing value, under Min the first border is the
\* lowest float and the missing values get code 0; under Max the last border
\* is the largest float and the missing values get the last code.
C7_NanToExtremalBucket ==
    \A t \in FloatTasks :
        (pc[t] = "done" /\ HasNan(LogicalColumn(t))) =>
            /\ info.NanMode = "Min" =>
                    /\ loc[t].borders # <<>>
                    /\ loc[t].borders[1] = Lowest
                    /\ NanCodesAre(t, 0)
            /\ info.NanMode = "Max" =>
                    /\ loc[t].borders # <<>>
                    /\ loc[t].borders[Len(loc[t].borders)] = FltMax
                    /\ NanCodesAre(t, Len(loc[t].borders))

\* a task whose holder was built
Quantized(t) == pc[t] \in {"towrite", "wlocked", "finish", "done"}

\* C8: for a column of finite values the code of a row is 0 below the first
\* border, k from border k up to border k+1, and the number of borders from
\* the last border on.
C8_CodeIsBucketOfValue ==
    \A t \in FloatTasks :
        (Quantized(t) /\ dst[t].kind = "compressed" /\ ~HasNan(LogicalColumn(t))) =>
            LET b == loc[t].borders
                v == LogicalColumn(t)
                n == Len(b)
            IN  /\ Len(dst[t].codes) = Len(v)
                /\ \A i \in 1..Len(v) :
                     LET code == dst[t].codes[i]
                     IN  /\ code \in 0..n
                         /\ code < n => Val(v[i]) < Val(b[code + 1])
                         /\ code > 0 => Val(b[code]) <= Val(v[i])

C8_Witness ==
    \E t \in FloatTasks :
        /\ pc[t] = "done" /\ dst[t].kind = "compressed" /\ ~HasNan(LogicalColumn(t))
        /\ Len(loc[t].borders) >= 1
        /\ dst[t].codes[1] > dst[t].codes[2]

\* a border list as the code keeps it
WellFormedBorders(b) == StrictlyIncreasing(b) /\ NegZero \notin Range(b)

\* C9: the borders calculated and the borders stored are strictly increasing
\* with no negative zero, also with the border of the nan mode; for values
\* without a missing one there are at most BorderCount of them.
C9_BordersStrictlyIncreasing ==
    /\ \A f \in FloatIdx : hasBorders[f] => WellFormedBorders(borders[f])
    /\ \A t \in FloatTasks :
        /\ WellFormedBorders(loc[t].calculatedBorders)
        /\ ~HasNan(ValuesForBuildBorders(t)) =>
                Len(loc[t].calculatedBorders) <= info.BorderCount

C9_Witness ==
    \E t \in FloatTasks :
        /\ pc[t] = "done"
        /\ HasNan(ValuesForBuildBorders(t))
        /\ Range(Finite(ValuesForBuildBorders(t))) = {-2, 2}
        /\ borders[t[3]] = <<Lowest, 0>>

HolderBuilt(t) == pc[t] \in {"finish", "done"} \/ (t \in FloatTasks /\ Quantized(t))

\* C11: the holder of a float or categorical feature is the external view
\* exactly when the CPU format is not asked for and the source is not being
\* destroyed; else it is a compressed array of the column's length, 8 bits
\* per key for a float and 32 for a categorical feature; the source of an
\* external view is never destroyed.
C11_ExternalIffNotCpuNotCleared ==
    \A t \in AllTasks :
        HolderBuilt(t) =>
            LET o == t[1]
                external == ~options[o].CpuCompatibleFormat /\ raw[o].RefCount # 1
            IN  /\ dst[t].kind = (IF external THEN "external" ELSE "compressed")
                /\ dst[t].kind = "compressed" =>
                     /\ dst[t].bitsPerKey = (IF t[2] = "F" THEN 8 ELSE 32)
                     /\ Len(dst[t].codes) = Len(raw[o].SubsetIndexing)
                /\ dst[t].kind = "external" => srcAlive[t]

C11_Witness ==
    \E t \in FloatTasks, u \in CatTasks :
        /\ t[1] = u[1]
        /\ pc[t] = "done" /\ pc[u] = "done"
        /\ dst[t].kind = "external" /\ dst[u].kind = "external"
        /\ srcAlive[t] /\ srcAlive[u]

\* the step of call o in which Do chooses the subset and registers its tasks
Starts(o) == opPc[o] = "idle" /\ opPc'[o] = "exec"

\* subset holds sampleSize pairwise distinct logical rows of o, given through
\* the source's SubsetIndexing
IsSampleOf(subset, o, sampleSize) ==
    /\ subset.present
    /\ Len(subset.idx) = sampleSize
    /\ \E a \in InjSeqs(1..ObjectCount(o), sampleSize) :
            subset.idx = Compose(raw[o].SubsetIndexing, a)
    /\ raw[o].Order = "RandomShuffled" =>
            subset.idx = Compose(raw[o].SubsetIndexing, Iota(sampleSize))

\* C12 as claimed: whenever the sample size S is less than the row count N
\* the subset returned holds S distinct rows, and there is none when S >= N.
C12_SubsetWheneverSampleSmaller ==
    [][\A o \in Ops :
         Starts(o) =>
            IF SampleSize(o) < ObjectCount(o)
            THEN IsSampleOf(subsetForBuildBorders'[o], o, SampleSize(o))
            ELSE ~subsetForBuildBorders'[o].present]_vars

\* C12: if some available float feature has no borders yet and the sample
\* size S is less than the row count N, the subset returned holds exactly S
\* pairwise distinct logical rows, the first S ones when the source is
\* randomly shuffled; if S >= N, or every available float feature has
\* borders, no subset is returned.
C12_SubsetWhenBordersNeeded ==
    [][\A o \in Ops :
         Starts(o) =>
            IF NeedToCalcBorders /\ SampleSize(o) < ObjectCount(o)
            THEN IsSampleOf(subsetForBuildBorders'[o], o, SampleSize(o))
            ELSE ~subsetForBuildBorders'[o].present]_vars

C12_Witness ==
    \E o \in Ops, p \in Ops :
        /\ opPc[o] = "returned" /\ opPc[p] = "returned"
        /\ options[o].CpuCompatibilityShuffleOverFullData
        /\ SampleSize(o) = 2 /\ SampleSize(p) = 2
        /\ subsetForBuildBorders[o].present
        /\ subsetForBuildBorders[o].idx # Compose(raw[o].SubsetIndexing, Iota(2))
        /\ ~subsetForBuildBorders[p].present

\* calls o and p were given the same input, options and seed
SameRun(o, p) ==
    options[o] = options[p] /\ raw[o] = raw[p] /\ rand[o].seed = rand[p].seed

Started(o) == opPc[o] \in {"exec", "returned", "failed"} /\ ~NeitherFormat(o)

CatLogicalColumn(t) == ArrayData(raw[t[1]].CatFeatures[t[3]], raw[t[1]].SubsetIndexing)

\* the tokens the encoder was given for feature c so far
TokensSeen(c) ==
    UNION {Range(CatLogicalColumn(t)) :
             t \in {u \in CatTasks : u[3] = c /\ pc[u] \in {"finish", "done"}}}

IsPrefix(s, t) == Len(s) <= Len(t) /\ \A i \in 1..Len(s) : s[i] = t[i]

\* C14: the perfect hash of a categorical feature gives the D distinct tokens
\* seen so far the codes 0..D-1, one code per token; a step only adds tokens
\* after the ones that have a code, so every code written for a row by an
\* earlier call is still the code of that row's token.
C14_PerfectHashDenseAndStable ==
    /\ [](\A c \in CatIdx :
            /\ Range(perfectHash[c]) = TokensSeen(c)
            /\ Len(perfectHash[c]) = Cardinality(TokensSeen(c))
            /\ \A t \in CatTasks :
                 (t[3] = c /\ pc[t] \in {"finish", "done"} /\ dst[t].kind = "compressed") =>
                    \A i \in 1..Len(CatLogicalColumn(t)) :
                        /\ dst[t].codes[i] \in 0..(Len(perfectHash[c]) - 1)
                        /\ perfectHash[c][dst[t].codes[i] + 1] = CatLogicalColumn(t)[i])
    /\ [][\A c \in CatIdx : IsPrefix(perfectHash[c], perfectHash'[c])]_vars

C14_Witness ==
    \E t \in CatTasks, u \in CatTasks :
        /\ t[1] # u[1] /\ t[3] = u[3]
        /\ pc[t] = "done" /\ pc[u] = "done"
        /\ dst[t].kind = "compressed" /\ dst[u].kind = "compressed"
        /\ Len(perfectHash[t[3]]) = 3
        /\ dst[t].codes[1] = 0
        /\ dst[u].codes[1] = 2 /\ dst[u].codes[2] = 1

\* C15: a source column is destroyed only by its own task, in the step that
\* ends the task, after the task's border calculation or encoding and its
\* quantization, and only when the caller holds the only reference, in which
\* case every task that ends destroys its column; until then the column is
\* there for the task to read.
C15_SourceDestroyedAfterOwnTask ==
    /\ [](\A t \in AllTasks :
            /\ ~srcAlive[t] => raw[t[1]].RefCount = 1 /\ pc[t] = "done" /\ HolderBuilt(t)
            /\ (pc[t] = "done" /\ raw[t[1]].RefCount = 1) => ~srcAlive[t]
            /\ pc[t] # "done" => srcAlive[t])
    /\ [][\A t \in AllTasks :
            (srcAlive[t] /\ ~srcAlive'[t]) => pc[t] = "finish" /\ pc'[t] = "done"]_vars

C15_Witness ==
    \E t \in FloatTasks, u \in CatTasks :
        /\ t[1] = u[1]
        /\ pc[t] = "done" /\ ~srcAlive[t] /\ dst[t].kind = "compressed"
        /\ pc[u] = "wlocked" /\ srcAlive[u]

\* the entries the border list of a float task gets: the thresholds asked for
\* and, for a column with a missing value, the border of the nan mode
EntriesOf(t) ==
    info.BorderCount
        + (IF HasNan(ValuesForBuildBorders(t)) /\ info.NanMode # "Forbidden" THEN 1 ELSE 0)

\* C16: a border list in the metadata has fewer than 256 entries, the border
\* of the nan mode included; a calculation of 256 or more entries ends in the
\* failure of Y_VERIFY with nothing stored for the feature, and one of fewer
\* entries does not fail so.
C16_FewerThan256Borders ==
    /\ \A f \in FloatIdx : hasBorders[f] => Len(borders[f]) < MaxBordersSize
    /\ \A t \in FloatTasks :
        /\ Len(loc[t].calculatedBorders) < MaxBordersSize
        /\ (pc[t] \notin {"none", "queued", "start", "rlocked", "check"}
            /\ ~(info.NanMode = "Forbidden" /\ HasNan(ValuesForBuildBorders(t)))) =>
                IF EntriesOf(t) >= MaxBordersSize
                THEN /\ pc[t] = "failed" /\ taskErr[t] = "Y_VERIFY"
                     /\ nanModes[t[3]] = "None" /\ ~hasBorders[t[3]]
                ELSE /\ taskErr[t] # "Y_VERIFY"
                     /\ Len(loc[t].calculatedBorders) = EntriesOf(t)

C16_Witness ==
    \E t \in FloatTasks :
        /\ info.BorderCount = MaxBordersSize - 1
        /\ info.NanMode = "Min"
        /\ HasNan(ValuesForBuildBorders(t))
        /\ taskErr[t] = "Y_VERIFY"
        /\ opPc[t[1]] = "failed"

\* C17: when a call has returned, the subset indexing of the provider and of
\* the holder of every feature is the full subset 1..N in order, N being the
\* object count, also when the source's subset indexing is partial or
\* reordered.
C17_DestinationIndexingIsFull ==
    \A o \in Ops :
        opPc[o] = "returned" =>
            /\ subsetIndexing[o] = Iota(Len(raw[o].SubsetIndexing))
            /\ \A t \in RegisteredTasks(o) :
                 dst[t].dstSubsetIndexing = Iota(Len(raw[o].SubsetIndexing))

C17_Witness ==
    \E o \in Ops :
        /\ opPc[o] = "returned"
        /\ raw[o].SubsetIndexing = <<MaxObjects, 1>>
        /\ subsetIndexing[o] = <<1, 2>>
        /\ \E t \in RegisteredTasks(o) : dst[t].kind = "compressed"

\* the step in which task t reads NanMode[f] or Borders[f] of the metadata:
\* the guarded block, or Quantize reading through the array reference that
\* was taken from GetBorders
ReadsStoredBordersOrNanMode(t) ==
    \/ pc[t] = "rlocked" /\ pc'[t] # "rlocked"
    \/ /\ pc[t] = "quantize" /\ pc'[t] # "quantize"
       /\ loc[t].refersToInfo
       /\ options[t[1]].CpuCompatibleFormat \/ clearSrcData[t[1]]

\* the step in which task t writes NanMode[f] or Borders[f] of the metadata
WritesStoredBordersOrNanMode(t) == pc[t] = "wlocked" /\ pc'[t] # "wlocked"

HoldsLock(t) == t \in rwMutex.readers \cup rwMutex.writer

\* C18: a float task reads the stored borders and nan mode of its feature only
\* while it holds the lock, writes them only while it holds the write lock,
\* and holds no lock while it calculates borders or quantizes; so a task that
\* reuses stored borders reads them no more once it released the lock.
C18_StoredBordersOnlyUnderLock ==
    [][\A t \in FloatTasks :
         /\ ReadsStoredBordersOrNanMode(t) => HoldsLock(t)
         /\ WritesStoredBordersOrNanMode(t) => t \in rwMutex.writer
         /\ pc[t] \in {"check", "quantize"} => ~HoldsLock(t)]_vars

\* C19: the quota the executor of a call is made with is CpuRamLimit minus
\* the resident memory, in 64-bit unsigned arithmetic, and is never greater
\* than CpuRamLimit; when the resident memory is above the limit a warning is
\* logged, the call goes on, and the quota is still no greater than the limit.
C19_BudgetWithinLimit ==
    \A o \in Ops :
        opPc[o] \in {"exec", "returned"} =>
            /\ quota[o] = SubU64(options[o].CpuRamLimit, rss[o])
            /\ warned[o] = LessU64(options[o].CpuRamLimit, rss[o])
            /\ LeqU64(quota[o], options[o].CpuRamLimit)

\* the task went through CalcBordersAndNanMode without an error
Calculated(t) ==
    /\ t \in FloatTasks
    /\ loc[t].calculateNanMode
    /\ pc[t] \in {"quantize", "towrite", "wlocked", "finish", "done"}

NoNansForBuildBorders(t) ==
    \A i \in 1..Len(ValuesForBuildBorders(t)) : ~IsNan(ValuesForBuildBorders(t)[i])

NoExtremalBorder(bs) == \A k \in 1..Len(bs) : bs[k] \notin {Lowest, FltMax}

\* C20: when the values a float task calculates borders from hold no missing
\* value, the nan mode it calculates, and the one it stores for the feature,
\* is Forbidden, and neither the calculated nor the stored borders get an
\* extremal border, whichever NanMode (Forbidden, Min, Max) the options name.
C20_NoNansGivesForbidden ==
    \A t \in FloatTasks :
        (Calculated(t) /\ NoNansForBuildBorders(t)) =>
            /\ loc[t].nanMode = "Forbidden"
            /\ NoExtremalBorder(loc[t].calculatedBorders)
            /\ pc[t] \in {"finish", "done"} =>
                 /\ nanModes[t[3]] = "Forbidden"
                 /\ borders[t[3]] = loc[t].calculatedBorders

C20_Witness ==
    \E t \in FloatTasks :
        /\ Calculated(t) /\ NoNansForBuildBorders(t)
        /\ pc[t] = "done"
        /\ info.NanMode \in {"Min", "Max"}
        /\ loc[t].calculatedBorders # <<>>
        /\ nanModes[t[3]] = "Forbidden"
        /\ hasBorders[t[3]]

\* the metadata held a nan mode and borders for the task's feature when the
\* task was started
StoredAtStart(t) ==
    /\ t \in FloatTasks
    /\ pc[t] \notin {"none", "queued"}
    /\ atStart[t].nanMode # "None"
    /\ atStart[t].hasBorders /\ atStart[t].borders # <<>>

\* the codes Quantize gives the task's column with the entry found at its start
CodesOfStored(t) ==
    QuantizeValues(SrcFeatureData(t),
                   atStart[t].nanMode # "Forbidden" \/ info.allowNansInTestOnly,
                   atStart[t].nanMode, atStart[t].borders).codes

\* C21: a float task started when the metadata holds a nan mode and non-empty
\* borders for its feature calculates neither, never writes the entry, and the
\* codes of its holder are those of the stored borders and nan mode.
C21_StoredEntryReused ==
    /\ [](\A t \in FloatTasks :
            StoredAtStart(t) =>
                /\ loc[t].calculatedBorders = <<>>
                /\ pc[t] \notin {"towrite", "wlocked"}
                /\ dst[t].kind = "compressed" => dst[t].codes = CodesOfStored(t))
    /\ [][\A t \in FloatTasks :
            (StoredAtStart(t) /\ pc[t] # pc'[t]) =>
                /\ nanModes'[t[3]] = nanModes[t[3]]
                /\ borders'[t[3]] = borders[t[3]]]_vars

\* C22: a float task fails only in the border calculation, the pairing check
\* or the quantization; a failed task has set no holder, and the step in which
\* it fails leaves the metadata as it was; a task writes the nan mode or the
\* borders of its feature only once its holder is built, and does not fail
\* after that.
C22_FailedTaskWritesNothing ==
    /\ [](\A t \in FloatTasks : pc[t] = "failed" => dst[t] = NoHolder)
    /\ [][\A t \in FloatTasks :
            /\ (pc'[t] = "failed" /\ pc[t] # "failed") =>
                   /\ pc[t] \in {"check", "quantize"}
                   /\ UNCHANGED <<nanModes, hasBorders, borders>>
            /\ pc[t] = "failed" => pc'[t] = "failed"
            /\ WritesStoredBordersOrNanMode(t) =>
                   dst[t].kind # "none" /\ pc'[t] # "failed"]_vars

C22_Witness ==
    \E t \in FloatTasks :
        /\ pc[t] = "failed" /\ taskErr[t] = "CB_ENSURE"
        /\ ~loc[t].calculateNanMode
        /\ dst[t] = NoHolder
        /\ hasBorders[t[3]] /\ nanModes[t[3]] = "Forbidden"

\* the output of a task is materialized: CPU compatible format, or the source
\* is destroyed
Materialized(o, clear) == options[o].CpuCompatibleFormat \/ clear

\* what the float estimate counts for the border calculation: the copy of the
\* sample and what BestSplit needs
ForBuildBorders(objectCount, o) ==
    IF NeedToCalcBorders
    THEN AddU64(MulU64(4, Min2(objectCount,
                               options[o].MaxSubsetSizeForSlowBuildBordersAlgorithms)),
                ToU64(info.findBestSplitMem))
    ELSE ToU64(0)

\* C23: for every object count N the estimate of a categorical task is 32 * N,
\* plus 4 * N when the output is materialized, as an exact 64 bit value; and
\* the estimate of a float task is N bytes more when the output is
\* materialized than when it is not.
C23_EstimatesExact ==
    \A o \in Ops :
        (opPc[o] = "idle" /\ estimated # NoEstimate) =>
            LET N == estimated.objectCount
                clear == estimated.clearSrcData
            IN  /\ estimated.cat =
                       AddU64(MulU64(ESTIMATED_FEATURES_PERFECT_HASH_MAP_NODE_SIZE, N),
                              IF Materialized(o, clear) THEN MulU64(4, N) ELSE ToU64(0))
                /\ estimated.float =
                       AddU64(ForBuildBorders(N, o),
                              IF Materialized(o, clear) THEN MulU64(1, N) ELSE ToU64(0))

====
